---- MODULE Spec2Model ----
(***************************************************************************)
(* A model of monster's SMT-LIB emitter (src/solver/external.rs) and of    *)
(* the command line validators (src/cli.rs).                               *)
(*                                                                         *)
(* The emitter is a state machine: a BufWriter over stdout or over a file, *)
(* shared behind a mutex, and driver threads that call solve_impl.  Every  *)
(* lock acquisition and every writeln! is a step of its own.               *)
(***************************************************************************)
EXTENDS Integers, Sequences, FiniteSets, TLC

\* ------------------------------------------------------------------ bounds
MaxNodes == 3
MaxCalls == 2
NThreads == 2
MaxFailures == 2
MaxMemoryArg == 1026
MaxRun == 16

\* ------------------------------------------------------------- formula IR
\* BVOperator (closed set); Not is the only unary operator.
BVOperator ==
  {"Add", "Sub", "Mul", "Divu", "Remu", "Not", "Equals", "BitwiseAnd", "Sltu"}

BinaryOperators == BVOperator \ {"Not"}

InputNode(name) ==
  [kind |-> "Input", name |-> name, value |-> 0, op |-> "", lhs |-> -1, rhs |-> -1]

ConstantNode(v) ==
  [kind |-> "Constant", name |-> "", value |-> v, op |-> "", lhs |-> -1, rhs |-> -1]

UnaryNode(op, c) ==
  [kind |-> "Unary", name |-> "", value |-> 0, op |-> op, lhs |-> c, rhs |-> -1]

BinaryNode(op, l, r) ==
  [kind |-> "Binary", name |-> "", value |-> 0, op |-> op, lhs |-> l, rhs |-> r]

\* The nodes a formula may hold at identifier i: children are older nodes.
NodeChoices(i) ==
  {InputNode("x"), ConstantNode(42)}
    \cup {UnaryNode("Not", c) : c \in 0..(i - 1)}
    \cup {BinaryNode("Add", l, r) : l \in 0..(i - 1), r \in 0..(i - 1)}

RECURSIVE DagGraphs(_)
DagGraphs(n) ==
  IF n = 0 THEN {<<>>}
  ELSE LET prev == DagGraphs(n - 1)
       IN  prev \cup {Append(g, nd) : g \in {h \in prev : Len(h) = n - 1},
                                      nd \in NodeChoices(n - 1)}

\* One formula per operator: x0 = Input, x1 = Constant, x2 = the operator node.
OpGraphs ==
  {<<InputNode("x"), ConstantNode(42), BinaryNode(op, 0, 1)>> : op \in BinaryOperators}
    \cup {<<InputNode("x"), ConstantNode(42), UnaryNode("Not", 0)>>}

Graphs == (DagGraphs(MaxNodes) \ {<<>>}) \cup OpGraphs

\* The formulas of the sequential driver: x2 = (= x0 x1) over an input and a
\* constant, and an input that feeds two binary parents.
SeqGraphs ==
  {<<InputNode("x"), ConstantNode(42), BinaryNode("Equals", 0, 1)>>,
   <<InputNode("y"), BinaryNode("Add", 0, 0), BinaryNode("Mul", 1, 0)>>}

\* The formula the concurrent driver threads solve.
ConcGraphs == {<<InputNode("y")>>}

\* ------------------------------------------------------------------ state
VARIABLES
  graph,    \* the formula's node array, identifiers dense from 0
  kind,     \* which constructor built the emitter: "stdout" (Default) or "file" (new)
  sink,     \* the lines the BufWriter accepted, each tagged with the call that wrote it
  device,   \* what the device behind the BufWriter holds once the emitter is dropped
  closed,   \* "open", or how the flush of the dropped emitter went
  failures, \* how many writes the device has refused
  lock,     \* the thread that holds the sink mutex, or NoThread
  pc,       \* each thread's position in solve_impl
  visited,  \* each thread's memoization map of the running traversal
  calls,    \* each thread's solve calls in call order, with their results
  cli       \* the command line given to the argument parser, and its result

vars == <<graph, kind, sink, device, closed, failures, lock, pc, visited, calls, cli>>

Threads == 1..NThreads

NoThread == 0

NodeIds == 0..(Len(graph) - 1)

Node(id) == graph[id + 1]

\* ------------------------------------------------------------ sink lines
Line(cmd, id, tok, a, b, note) ==
  [cmd |-> cmd, id |-> id, tok |-> tok, a |-> a, b |-> b, note |-> note]

SetLogicLine == Line("(set-logic QF_BV)", -1, "", -1, -1, "")

PushLine == Line("(push 1)", -1, "", -1, -1, "")

CheckSatLine == Line("(check-sat)", -1, "", -1, -1, "")

GetModelLine == Line("(get-model)", -1, "", -1, -1, "")

PopLine == Line("(pop 1)", -1, "", -1, -1, "")

\* "(declare-fun x{} () (_ BitVec 64)); {:?}": the declaration of an input
\* carries its name as a comment on the same line.
DeclareLine(idx, name) == Line("declare-fun", idx, "", -1, -1, name)

\* "(assert (= x{} (_ bv{} 64)))"
AssertConstantLine(idx, v) == Line("assert", idx, "_ bv", v, -1, "")

\* "(assert (= x{} ({} x{})))"
AssertUnaryLine(idx, tok, c) == Line("assert", idx, tok, c, -1, "")

\* "(assert (= x{} ({} x{} x{})))"
AssertBinaryLine(idx, tok, l, r) == Line("assert", idx, tok, l, r, "")

\* The bytes of a line whose write was cut short by a failing flush.
FragmentLine == Line("fragment", -1, "", -1, -1, "")

Tagged(lines, c) == [i \in 1..Len(lines) |-> [by |-> c, text |-> lines[i]]]

Text(s) == [i \in 1..Len(s) |-> s[i].text]

\* File::open opens the file read only; stdout is writable.
Writable(k) == k = "stdout"

\* writeln! on the BufWriter.  The line is accepted (it fits into the buffer,
\* or the buffer is flushed to the device first), or the flush is refused by
\* the device: that is the write's error, and the pieces of the line that
\* were formatted before it stay in the buffer.
WriteOutcomes(lines, c) ==
  {[ok |-> TRUE, sink |-> sink \o Tagged(lines, c)]}
    \cup (IF failures < MaxFailures
          THEN {[ok |-> FALSE, sink |-> sink],
                [ok |-> FALSE, sink |-> sink \o Tagged(<<FragmentLine>>, c)]}
          ELSE {})

\* --------------------------------------------------------------- results
\* Result<SymbolId, SolverError> of a visitor callback, and the result of
\* solve_impl.  site and at say where an IoError arose.
Ok(idx) == [tag |-> "Ok", id |-> idx, site |-> "", at |-> -1]

IoError(site, n) == [tag |-> "IoError", id |-> -1, site |-> site, at |-> n]

SatUnknown == [tag |-> "SatUnknown", id |-> -1, site |-> "", at |-> -1]

Unvisited == [tag |-> "Unvisited", id |-> -1, site |-> "", at |-> -1]

Running == [tag |-> "Running", id |-> -1, site |-> "", at |-> -1]

IsOk(r) == r.tag = "Ok"

\* to_smt with the tokens of the division and of the remainder exchanged.
to_smt_exchanged(op) ==
  CASE op = "Add" -> "bvadd"
    [] op = "Sub" -> "bvsub"
    [] op = "Not" -> "not"
    [] op = "Mul" -> "bvmul"
    [] op = "Divu" -> "bvurem"
    [] op = "Remu" -> "bvudiv"
    [] op = "Equals" -> "="
    [] op = "BitwiseAnd" -> "bvand"
    [] op = "Sltu" -> "bvult"

\* ---------------------------------------------------------------- to_smt
to_smt(op) ==
  CASE op = "Add" -> "bvadd"
    [] op = "Sub" -> "bvsub"
    [] op = "Not" -> "not"
    [] op = "Mul" -> "bvmul"
    [] op = "Divu" -> "bvudiv"
    [] op = "Remu" -> "bvurem"
    [] op = "Equals" -> "="
    [] op = "BitwiseAnd" -> "bvand"
    [] op = "Sltu" -> "bvult"

\* ------------------------------------------------------------ SmtPrinter
\* Each callback yields the set of its possible outcomes: its result and
\* the sink after it.
Emitted(idx, lines, c) ==
  {[res |-> IF o.ok THEN Ok(idx) ELSE IoError("node", idx), sink |-> o.sink,
    refused |-> ~o.ok]
     : o \in WriteOutcomes(lines, c)}

Forwarded(e) == {[res |-> e, sink |-> sink, refused |-> FALSE]}

input(idx, name, c) == Emitted(idx, <<DeclareLine(idx, name)>>, c)

constant(idx, v, c) ==
  Emitted(idx, <<DeclareLine(idx, ""), AssertConstantLine(idx, v)>>, c)

\* `v?` is among the arguments of writeln!: it is evaluated, and returns the
\* child's error, before anything is written.
unary(idx, op, v, c) ==
  IF ~IsOk(v) THEN Forwarded(v)
  ELSE Emitted(idx, <<DeclareLine(idx, ""), AssertUnaryLine(idx, to_smt(op), v.id)>>, c)

\* binary with `rhs?` evaluated before `lhs?`.
binary_rhs_first(idx, op, lhs, rhs, c) ==
  IF ~IsOk(rhs) THEN Forwarded(rhs)
  ELSE IF ~IsOk(lhs) THEN Forwarded(lhs)
  ELSE Emitted(idx,
               <<DeclareLine(idx, ""), AssertBinaryLine(idx, to_smt(op), lhs.id, rhs.id)>>,
               c)

\* binary that declares its operands along with its own node.
binary_declaring_operands(idx, op, lhs, rhs, c) ==
  IF ~IsOk(lhs) THEN Forwarded(lhs)
  ELSE IF ~IsOk(rhs) THEN Forwarded(rhs)
  ELSE Emitted(idx,
               <<DeclareLine(lhs.id, ""), DeclareLine(rhs.id, ""), DeclareLine(idx, ""),
                 AssertBinaryLine(idx, to_smt(op), lhs.id, rhs.id)>>,
               c)

\* `lhs?` is evaluated before `rhs?`.
binary(idx, op, lhs, rhs, c) ==
  IF ~IsOk(lhs) THEN Forwarded(lhs)
  ELSE IF ~IsOk(rhs) THEN Forwarded(rhs)
  ELSE Emitted(idx,
               <<DeclareLine(idx, ""), AssertBinaryLine(idx, to_smt(op), lhs.id, rhs.id)>>,
               c)

\* --------------------------------------------------------------- traverse
\* Formula::traverse: memoized, children before parents, lhs before rhs.
\* Pending(n, vis) is the node whose callback the traversal of n runs next.
RECURSIVE Pending(_, _)
Pending(n, vis) ==
  LET nd == Node(n)
  IN  IF nd.kind = "Unary" /\ vis[nd.lhs] = Unvisited THEN Pending(nd.lhs, vis)
      ELSE IF nd.kind = "Binary" /\ vis[nd.lhs] = Unvisited THEN Pending(nd.lhs, vis)
      ELSE IF nd.kind = "Binary" /\ vis[nd.rhs] = Unvisited THEN Pending(nd.rhs, vis)
      ELSE n

\* The callback of node n, with the cached results of its children.
Visit(n, vis, c) ==
  LET nd == Node(n)
  IN  CASE nd.kind = "Input" -> input(n, nd.name, c)
        [] nd.kind = "Constant" -> constant(n, nd.value, c)
        [] nd.kind = "Unary" -> unary(n, nd.op, vis[nd.lhs], c)
        [] nd.kind = "Binary" -> binary(n, nd.op, vis[nd.lhs], vis[nd.rhs], c)

\* ------------------------------------------------------------ solve_impl
\* The running (or last) call of thread t: its tag on the sink's lines, and
\* the root it solves.
Cur(t) == <<t, Len(calls[t])>>

Root(t) == calls[t][Len(calls[t])].root

\* `HashMap::new()`: every call starts with an empty memoization map.
NewVisited(t) == [n \in NodeIds |-> Unvisited]

\* The guard taken for `(push 1)` kept until solve_impl returns.
GuardKept(t) == t

\* The guard taken for `(push 1)` is dropped at the end of its block.
GuardAfterPush(t) == NoThread

\* solve_impl answering Unsat.
SolveResultUnsat(t) == [tag |-> "Unsat", id |-> -1, site |-> "", at |-> -1]

\* What solve_impl returns once the check-sat block is written.
SolveResult(t) == SatUnknown

\* The record of the running call after a write: whether the write was
\* refused, and the result r when the call returns with it.
Noted(t, r, refused) ==
  calls' = [calls EXCEPT ![t][Len(calls[t])] =
              [root |-> @.root, ret |-> r,
               refused |-> IF refused THEN @.refused + 1 ELSE @.refused]]

Returned(t, r, refused) ==
  /\ pc' = [pc EXCEPT ![t] = "returned"]
  /\ Noted(t, r, refused)

\* A driver thread enters solve_impl with the formula's root of this query.
Enter(t, r) ==
  /\ closed = "open"
  /\ calls' = [calls EXCEPT ![t] = Append(@, [root |-> r, ret |-> Running, refused |-> 0])]
  /\ pc' = [pc EXCEPT ![t] = "push_lock"]
  /\ UNCHANGED <<graph, kind, sink, device, closed, failures, lock, visited, cli>>

Solve(t) ==
  /\ pc[t] = "idle"
  /\ \E r \in NodeIds : Enter(t, r)

SolveAgain(t) ==
  /\ pc[t] = "returned"
  /\ Len(calls[t]) < MaxCalls
  /\ \E r \in NodeIds : Enter(t, r)

\* `self.output.lock()` before `(push 1)`.
PushLock(t) ==
  /\ pc[t] = "push_lock"
  /\ lock = NoThread
  /\ lock' = t
  /\ pc' = [pc EXCEPT ![t] = "push_write"]
  /\ UNCHANGED <<graph, kind, sink, device, closed, failures, visited, calls, cli>>

\* `writeln!(output, "(push 1)")?`, the end of the block, and the fresh
\* printer and memoization map.
PushWrite(t) ==
  /\ pc[t] = "push_write"
  /\ \E o \in WriteOutcomes(<<PushLine>>, Cur(t)) :
       /\ sink' = o.sink
       /\ failures' = IF o.ok THEN failures ELSE failures + 1
       /\ IF o.ok
          THEN /\ lock' = GuardAfterPush(t)
               /\ pc' = [pc EXCEPT ![t] = "visit_lock"]
               /\ visited' = [visited EXCEPT ![t] = NewVisited(t)]
               /\ UNCHANGED calls
          ELSE /\ lock' = NoThread
               /\ Returned(t, IoError("push", -1), TRUE)
               /\ UNCHANGED visited
  /\ UNCHANGED <<graph, kind, device, closed, cli>>

\* `self.output.lock()` at the head of a visitor callback.
VisitLock(t) ==
  /\ pc[t] = "visit_lock"
  /\ lock = NoThread
  /\ lock' = t
  /\ pc' = [pc EXCEPT ![t] = "visit_write"]
  /\ UNCHANGED <<graph, kind, sink, device, closed, failures, visited, calls, cli>>

\* The rest of the callback of the next node; its guard is dropped when it
\* returns.  When that node is the root the traversal returns, and `?`
\* returns its error from solve_impl.
VisitWrite(t) ==
  /\ pc[t] = "visit_write"
  /\ LET n == Pending(Root(t), visited[t])
     IN  \E o \in Visit(n, visited[t], Cur(t)) :
           /\ sink' = o.sink
           /\ failures' = IF o.refused THEN failures + 1 ELSE failures
           /\ visited' = [visited EXCEPT ![t][n] = o.res]
           /\ lock' = NoThread
           /\ IF n # Root(t)
              THEN pc' = [pc EXCEPT ![t] = "visit_lock"] /\ Noted(t, Running, o.refused)
              ELSE IF IsOk(o.res)
              THEN pc' = [pc EXCEPT ![t] = "final_lock"] /\ Noted(t, Running, o.refused)
              ELSE Returned(t, o.res, o.refused)
  /\ UNCHANGED <<graph, kind, device, closed, cli>>

\* `self.output.lock()` before the check-sat block.
FinalLock(t) ==
  /\ pc[t] = "final_lock"
  /\ lock = NoThread
  /\ lock' = t
  /\ pc' = [pc EXCEPT ![t] = "final_write"]
  /\ UNCHANGED <<graph, kind, sink, device, closed, failures, visited, calls, cli>>

\* `writeln!(output, "(check-sat)\n(get-model)\n(pop 1)")?` and the return;
\* the guard is dropped on either way out.
FinalWrite(t) ==
  /\ pc[t] = "final_write"
  /\ \E o \in WriteOutcomes(<<CheckSatLine, GetModelLine, PopLine>>, Cur(t)) :
       /\ sink' = o.sink
       /\ failures' = IF o.ok THEN failures ELSE failures + 1
       /\ Returned(t, IF o.ok THEN SolveResult(t) ELSE IoError("final", -1), ~o.ok)
  /\ lock' = NoThread
  /\ UNCHANGED <<graph, kind, device, closed, visited, cli>>

\* The emitter is dropped: the BufWriter flushes what it holds and ignores
\* the error of a flush the device refuses.  A writable device takes the
\* flush, or refuses it and is left with some earlier part of the stream; the
\* file that was opened read only takes nothing.
Drop ==
  /\ closed = "open"
  /\ \A t \in Threads : pc[t] \in {"idle", "returned"}
  /\ \/ /\ Writable(kind)
        /\ closed' = "flushed"
        /\ device' = sink
        /\ UNCHANGED failures
     \/ /\ Writable(kind)
        /\ failures < MaxFailures
        /\ closed' = "refused"
        /\ \E k \in 0..(Len(sink) - 1) : device' = SubSeq(sink, 1, k)
        /\ failures' = failures + 1
     \/ /\ ~Writable(kind)
        /\ closed' = "refused"
        /\ device' = <<>>
        /\ UNCHANGED failures
  /\ UNCHANGED <<graph, kind, sink, lock, pc, visited, calls, cli>>

\* ------------------------------------------------------------ command line
\* An argument value is the sequence of its characters.
DigitChars == <<"0", "1", "2", "3", "4", "5", "6", "7", "8", "9">>

IsDigit(ch) == \E d \in 1..Len(DigitChars) : DigitChars[d] = ch

DigitValue(ch) == (CHOOSE d \in 1..Len(DigitChars) : DigitChars[d] = ch) - 1

\* Result<(), String> of a validator.
Accept == [ok |-> TRUE, msg |-> ""]

Reject(msg) == [ok |-> FALSE, msg |-> msg]

\* Result<T, T::Err> of str::parse.
Parsed(x) == [ok |-> TRUE, val |-> x, msg |-> ""]

ParseErr(msg) == [ok |-> FALSE, val |-> <<>>, msg |-> msg]

RECURSIVE DecimalValue(_)
DecimalValue(ds) ==
  IF ds = <<>> THEN 0
  ELSE 10 * DecimalValue(SubSeq(ds, 1, Len(ds) - 1)) + DigitValue(ds[Len(ds)])

\* v.parse::<u64>(): an optional "+", then one or more decimal digits and
\* nothing else.  (A value of more than 64 bits is an error as well; the
\* arguments of the model are far shorter.)
parse_u64(v) ==
  LET digits == IF v # <<>> /\ v[1] = "+" THEN Tail(v) ELSE v
  IN IF v = <<>> THEN ParseErr("cannot parse integer from empty string")
     ELSE IF digits = <<>> \/ \E i \in 1..Len(digits) : ~IsDigit(digits[i])
       THEN ParseErr("invalid digit found in string")
     ELSE Parsed(DecimalValue(digits))

\* An f64 by the outcome of its comparisons with the bounds of the ratio
\* range: cmp0 and cmp1 are the sign of (value - 0.0) and of (value - 1.0);
\* every comparison with NaN is false.
F64(nan, cmp0, cmp1) == [nan |-> nan, cmp0 |-> cmp0, cmp1 |-> cmp1]

\* The decimal digits of 2^-53 after the point: half the distance from 1.0 to
\* the next f64 above it.
HalfUlpAboveOne ==
  <<0,0,0,0,0,0,0,0,0,0,0,0,0,0,0,1,1,1,0,2,2,3,0,2,4,6,2,5,1,5,6,5,4,0,4,2,3,
    6,3,1,6,6,8,0,9,0,8,2,0,3,1,2,5>>

\* The decimal digits of 1 - 2^-54 after the point: half way from the last
\* f64 below 1.0 to 1.0.
HalfUlpBelowOne ==
  <<9,9,9,9,9,9,9,9,9,9,9,9,9,9,9,9,4,4,4,8,8,8,4,8,7,6,8,7,4,2,1,7,2,9,7,8,8,
    1,8,4,1,6,5,9,5,4,5,8,9,8,4,3,7,5>>

DigitAt(ds, i) == IF i <= Len(ds) THEN ds[i] ELSE 0

\* Order of two decimal fractions given by their digits: -1, 0 or 1.
CompareFractions(a, b) ==
  LET n == IF Len(a) < Len(b) THEN Len(b) ELSE Len(a)
      diff == {i \in 1..n : DigitAt(a, i) # DigitAt(b, i)}
      first == CHOOSE i \in diff : \A j \in diff : i <= j
  IN IF diff = {} THEN 0
     ELSE IF DigitAt(a, first) < DigitAt(b, first) THEN -1 ELSE 1

RECURSIVE StripZeros(_)
StripZeros(ds) ==
  IF ds # <<>> /\ ds[1] = "0" THEN StripZeros(Tail(ds)) ELSE ds

\* The f64 nearest to the decimal intpart.fracpart (round to nearest, ties to
\* even), negated when neg.  1.0 is even, so a value exactly half way to a
\* neighbour of 1.0 becomes 1.0.  (A value of less than 2^-1075 becomes zero;
\* the arguments of the model are far from that.)
NearestF64(neg, intpart, fracpart) ==
  LET int == StripZeros(intpart)
      frac == [i \in 1..Len(fracpart) |-> DigitValue(fracpart[i])]
      zero == int = <<>> /\ \A i \in 1..Len(frac) : frac[i] = 0
      one == \/ int = <<>> /\ CompareFractions(frac, HalfUlpBelowOne) >= 0
             \/ int = <<"1">> /\ CompareFractions(frac, HalfUlpAboveOne) <= 0
      below == int = <<>> /\ ~one
  IN IF zero THEN F64(FALSE, 0, -1)
     ELSE IF neg THEN F64(FALSE, -1, -1)
     ELSE IF one THEN F64(FALSE, 1, 0)
     ELSE IF below THEN F64(FALSE, 1, -1)
     ELSE F64(FALSE, 1, 1)

\* v.parse::<f64>(): "NaN", "inf" and "-inf", or an optional "-", decimal
\* digits and at most one point, with a digit before or after it.
parse_f64(v) ==
  LET neg == v # <<>> /\ v[1] = "-"
      body == IF neg THEN Tail(v) ELSE v
      dots == {i \in 1..Len(body) : body[i] = "."}
      dot == IF dots = {} THEN Len(body) + 1 ELSE CHOOSE i \in dots : TRUE
      intpart == SubSeq(body, 1, dot - 1)
      fracpart == SubSeq(body, dot + 1, Len(body))
  IN IF v = <<>> THEN ParseErr("cannot parse float from empty string")
     ELSE IF v = <<"N", "a", "N">> THEN Parsed(F64(TRUE, 0, 0))
     ELSE IF v = <<"i", "n", "f">> THEN Parsed(F64(FALSE, 1, 1))
     ELSE IF v = <<"-", "i", "n", "f">> THEN Parsed(F64(FALSE, -1, -1))
     ELSE IF \/ Cardinality(dots) > 1
             \/ intpart \o fracpart = <<>>
             \/ \E i \in 1..Len(body) : ~IsDigit(body[i]) /\ body[i] # "."
       THEN ParseErr("invalid float literal")
     ELSE Parsed(NearestF64(neg, intpart, fracpart))

\* is::<u64>: the value parses as a u64.
is_u64(v) == IF parse_u64(v).ok THEN Accept ELSE Reject(parse_u64(v).msg)

\* RangeInclusive::contains of the range 0.0..=1.0: 0.0 <= x && x <= 1.0.
InUnitRange(x) == ~x.nan /\ x.cmp0 >= 0 /\ x.cmp1 <= 0

\* is_valid_memory_size with the half-open range 1..1024.
is_valid_memory_size_half_open(v) ==
  LET valid_range == 1..1023
      memory_size == parse_u64(v).val
  IN IF is_u64(v).ok
       THEN IF memory_size \in valid_range
              THEN Accept
              ELSE Reject("memory size has to be in range: 1 - 1024")
       ELSE is_u64(v)

is_valid_memory_size(v) ==
  LET valid_range == 1..1024
      memory_size == parse_u64(v).val
  IN IF is_u64(v).ok
       THEN IF memory_size \in valid_range
              THEN Accept
              ELSE Reject("memory size has to be in range: 1 - 1024")
       ELSE is_u64(v)

\* is_ratio with the half-open range 0.0..1.0.
is_ratio_half_open(v) ==
  LET ratio == parse_f64(v).val
  IN IF parse_f64(v).ok
       THEN IF ~ratio.nan /\ ratio.cmp0 >= 0 /\ ratio.cmp1 < 0
              THEN Accept
              ELSE Reject("Expected range between 0.0 and 1.0")
       ELSE Reject(parse_f64(v).msg)

is_ratio(v) ==
  LET ratio == parse_f64(v).val
  IN IF parse_f64(v).ok
       THEN IF InUnitRange(ratio)
              THEN Accept
              ELSE Reject("Expected range between 0.0 and 1.0")
       ELSE Reject(parse_f64(v).msg)

\* The validators args() attaches to the options of a subcommand.  An option
\* is the set of the values given for it: empty when the command line leaves
\* it to its default.
Validated(sub, opt, values) ==
  CASE sub = "execute" /\ opt = "memory" ->
         \A v \in values : is_valid_memory_size(v).ok
    [] sub = "rarity" /\ opt = "memory" ->
         \A v \in values : is_valid_memory_size(v).ok
    [] sub = "rarity" /\ opt = "copy-init-ratio" ->
         \A v \in values : is_ratio(v).ok
    [] OTHER -> values = {}

CommandLine(sub, memory, ratio) ==
  [sub |-> sub, memory |-> memory, ratio |-> ratio]

\* get_matches_from_safe: Ok(matches) when every validator accepts, an error
\* otherwise.
Matches(line) ==
  IF /\ Validated(line.sub, "memory", line.memory)
     /\ Validated(line.sub, "copy-init-ratio", line.ratio)
    THEN "matches" ELSE "error"

NotParsed == [line |-> CommandLine("", {}, {}), result |-> "none"]

\* ------------------------------------------------------ command-line inputs
RECURSIVE Numeral(_)
Numeral(n) ==
  IF n < 10 THEN <<DigitChars[n + 1]>>
  ELSE Append(Numeral(n \div 10), DigitChars[(n % 10) + 1])

Repeat(ch, k) == [i \in 1..k |-> ch]

\* A memory size as a user may write it: the number n plain, with a sign, or
\* with a leading zero.
MemoryText(form, n) ==
  CASE form = "plain" -> Numeral(n)
    [] form = "plus" -> <<"+">> \o Numeral(n)
    [] form = "minus" -> <<"-">> \o Numeral(n)
    [] form = "padded" -> <<"0">> \o Numeral(n)

MemoryCases ==
  {[form |-> f, n |-> n, text |-> MemoryText(f, n)] :
     f \in {"plain", "plus", "minus", "padded"},
     n \in (0..MaxMemoryArg) \cup {2048, 23424}}

\* A ratio as a user may write it: an integer part, and after the point a
\* run of one digit followed by a last digit.
RatioText(neg, int, point, fill, run, last) ==
  (IF neg THEN <<"-">> ELSE <<>>) \o Numeral(int)
    \o (IF point THEN <<".">> \o Repeat(Numeral(fill)[1], run) \o Numeral(last)
        ELSE <<>>)

RatioCases ==
  {[neg |-> s, int |-> i, point |-> TRUE, fill |-> f, run |-> k, last |-> d,
    text |-> RatioText(s, i, TRUE, f, k, d)] :
     s \in BOOLEAN, i \in 0..2, f \in {0, 9}, k \in 0..MaxRun, d \in {0, 1, 5, 9}}
  \cup
  {[neg |-> s, int |-> i, point |-> FALSE, fill |-> 0, run |-> 0, last |-> 0,
    text |-> RatioText(s, i, FALSE, 0, 0, 0)] : s \in BOOLEAN, i \in 0..2}

\* Values that are no numbers.
NotNumbers ==
  { <<>>, <<"a", "b", "c">>, <<"1", "x">>, <<"-">>, <<".">>,
    <<"1", ".", "5", ".", "5">>, <<"1", " ">> }

\* Values that are no unsigned integers, in addition.
NotIntegers == NotNumbers \cup { <<"1", ".", "5">>, <<"N", "a", "N">> }

\* Values that parse as an f64 which is no number, or no finite one.
NotFinite == { <<"N", "a", "N">>, <<"i", "n", "f">>, <<"-", "i", "n", "f">> }

MemoryArgs == {c.text : c \in MemoryCases} \cup NotIntegers

RatioArgs == {c.text : c \in RatioCases} \cup NotNumbers \cup NotFinite

\* The rarity command lines that give both options.
BothArgs ==
  { <<"1">>, <<"0">>, <<"1", "0", "2", "4">>, <<"1", "0", "2", "5">> }
  \X { <<"0", ".", "0">>, <<"1", ".", "0">>, <<"1", ".", "5">>, <<"-", "1">> }

\* ------------------------------------------------- command-line operations
\* `monster execute -m <memory> <file>`
ParseExecute ==
  /\ cli.result = "none"
  /\ \E m \in {{}} \cup {{v} : v \in MemoryArgs} :
       LET line == CommandLine("execute", m, {})
       IN cli' = [line |-> line, result |-> Matches(line)]
  /\ UNCHANGED <<graph, kind, sink, device, closed, failures, lock, pc, visited, calls>>

\* `monster rarity -m <memory> --copy-init-ratio <ratio> <file>`
ParseRarity ==
  /\ cli.result = "none"
  /\ \E o \in {<<{}, {}>>} \cup {<<{v}, {}>> : v \in MemoryArgs}
                \cup {<<{}, {v}>> : v \in RatioArgs}
                \cup {<<{b[1]}, {b[2]}>> : b \in BothArgs} :
       LET line == CommandLine("rarity", o[1], o[2])
       IN cli' = [line |-> line, result |-> Matches(line)]
  /\ UNCHANGED <<graph, kind, sink, device, closed, failures, lock, pc, visited, calls>>

\* -------------------------------------------------------- specifications
\* After construction: write_init has put `(set-logic QF_BV)` into the fresh
\* BufWriter; no thread is inside solve_impl.
InitEmitter ==
  /\ kind \in {"stdout", "file"}
  /\ sink = Tagged(<<SetLogicLine>>, <<0, 0>>)
  /\ device = <<>>
  /\ closed = "open"
  /\ failures = 0
  /\ lock = NoThread
  /\ pc = [t \in Threads |-> "idle"]
  /\ visited = [t \in Threads |-> [n \in NodeIds |-> Unvisited]]
  /\ calls = [t \in Threads |-> <<>>]
  /\ cli = NotParsed

\* One query of one thread, from the call to the return.
Query(t) ==
  \/ Solve(t)
  \/ PushLock(t)
  \/ PushWrite(t)
  \/ VisitLock(t)
  \/ VisitWrite(t)
  \/ FinalLock(t)
  \/ FinalWrite(t)

\* The symbolic driver: one thread, one query after the other on the roots
\* of one formula.
Init ==
  /\ graph \in SeqGraphs
  /\ InitEmitter

Next == Query(1) \/ SolveAgain(1) \/ Drop

Spec == Init /\ [][Next]_vars

\* One query over every formula of up to MaxNodes nodes.
InitDag ==
  /\ graph \in Graphs
  /\ InitEmitter

NextDag == Query(1) \/ Drop

SpecDag == InitDag /\ [][NextDag]_vars

\* Driver threads in testing: each solves one query on the shared emitter.
InitConc ==
  /\ graph \in ConcGraphs
  /\ InitEmitter

NextConc == \E t \in Threads : Query(t)

SpecConc ==
  /\ InitConc
  /\ [][NextConc]_vars
  /\ \A t \in Threads : WF_vars(Query(t))

\* The argument parser on one command line; no emitter is constructed before
\* the arguments are parsed.
InitCli ==
  /\ graph = <<>>
  /\ kind = "stdout"
  /\ sink = <<>>
  /\ device = <<>>
  /\ closed = "open"
  /\ failures = 0
  /\ lock = NoThread
  /\ pc = [t \in Threads |-> "idle"]
  /\ visited = [t \in Threads |-> <<>>]
  /\ calls = [t \in Threads |-> <<>>]
  /\ cli = NotParsed

NextCli == ParseExecute \/ ParseRarity

SpecCli == InitCli /\ [][NextCli]_vars

\* ================================================================ claims
\* What the claims speak of: the lines of one call, the nodes a root reaches,
\* and the trace the interface description prescribes.
LinesOf(c) == SelectSeq(sink, LAMBDA e : e.by = c)

Count(s, Test(_)) == Len(SelectSeq(s, Test))

InCall(t) == pc[t] \notin {"idle", "returned"}

Quiet == \A t \in Threads : ~InCall(t)

Result(t) == calls[t][Len(calls[t])].ret

Children(n) ==
  LET nd == Node(n)
  IN  CASE nd.kind = "Unary" -> {nd.lhs}
        [] nd.kind = "Binary" -> {nd.lhs, nd.rhs}
        [] OTHER -> {}

\* The nodes reachable from n, n included (children have smaller identifiers).
RECURSIVE Reachable(_)
Reachable(n) == {n} \cup UNION {Reachable(c) : c \in Children(n)}

\* The operator tokens of the interface description.
SmtToken ==
  [op \in BVOperator |->
     CASE op = "Add" -> "bvadd"
       [] op = "Sub" -> "bvsub"
       [] op = "Mul" -> "bvmul"
       [] op = "Divu" -> "bvudiv"
       [] op = "Remu" -> "bvurem"
       [] op = "Not" -> "not"
       [] op = "Equals" -> "="
       [] op = "BitwiseAnd" -> "bvand"
       [] op = "Sltu" -> "bvult"]

\* The lines prescribed for node n.
NodeLines(n) ==
  LET nd == Node(n)
  IN  CASE nd.kind = "Input" -> <<DeclareLine(n, nd.name)>>
        [] nd.kind = "Constant" -> <<DeclareLine(n, ""), AssertConstantLine(n, nd.value)>>
        [] nd.kind = "Unary" ->
             <<DeclareLine(n, ""), AssertUnaryLine(n, SmtToken[nd.op], nd.lhs)>>
        [] nd.kind = "Binary" ->
             <<DeclareLine(n, ""), AssertBinaryLine(n, SmtToken[nd.op], nd.lhs, nd.rhs)>>

\* The nodes below n in post-order, after those of `done`, each once.
RECURSIVE PostOrder(_, _)
PostOrder(n, done) ==
  IF \E i \in 1..Len(done) : done[i] = n THEN done
  ELSE LET nd == Node(n)
           a == IF nd.kind \in {"Unary", "Binary"} THEN PostOrder(nd.lhs, done) ELSE done
           b == IF nd.kind = "Binary" THEN PostOrder(nd.rhs, a) ELSE a
       IN  Append(b, n)

RECURSIVE Flat(_)
Flat(ss) == IF ss = <<>> THEN <<>> ELSE Head(ss) \o Flat(Tail(ss))

ExpectedBlock(r) ==
  <<PushLine>>
    \o Flat([i \in 1..Len(PostOrder(r, <<>>)) |-> NodeLines(PostOrder(r, <<>>)[i])])
    \o <<CheckSatLine, GetModelLine, PopLine>>

\* The trace prescribed for the calls of the sequential driver.
ExpectedTrace ==
  <<SetLogicLine>> \o Flat([k \in 1..Len(calls[1]) |-> ExpectedBlock(calls[1][k].root)])

AllSucceeded == \A k \in 1..Len(calls[1]) : calls[1][k].ret = SatUnknown

IsPush(e) == e.text = PushLine

IsPop(e) == e.text = PopLine

\* C1: once a solve call has returned, the sink holds as many `(pop 1)` lines
\* of that call as `(push 1)` lines of it (one each when the push was
\* written), also when the call returned an error.
C1_PushPopBalance ==
  \A t \in Threads :
    ~InCall(t) =>
      \A k \in 1..Len(calls[t]) :
        Count(LinesOf(<<t, k>>), IsPush) = Count(LinesOf(<<t, k>>), IsPop)

\* C2: the lines of one query are contiguous in the sink: no line of another
\* query lies between two lines of a query.
C2_QueryContiguous ==
  \A i, j, k \in 1..Len(sink) :
    (i < j /\ j < k /\ sink[i].by = sink[k].by) => sink[j].by = sink[i].by

\* C3: when the emitter is gone and every solve call of the sequential driver
\* succeeded, the sink (stdout whose last flush was taken, or the file given
\* to `new`) holds one `(set-logic QF_BV)` line and then, per call in call
\* order, `(push 1)`, the node lines in post-order, `(check-sat)`,
\* `(get-model)`, `(pop 1)`, and nothing else.
C3_SinkHoldsTrace ==
  (closed # "open" /\ AllSucceeded /\ (Writable(kind) => closed = "flushed"))
    => Text(device) = ExpectedTrace

\* The same on the emitter over stdout alone, where it holds.
StdoutHoldsTrace ==
  (closed = "flushed" /\ AllSucceeded) => Text(device) = ExpectedTrace

StdoutTraceWitness ==
  /\ closed = "flushed"
  /\ AllSucceeded
  /\ Len(calls[1]) = MaxCalls
  /\ calls[1][1].root # calls[1][2].root

\* How many `declare-fun x<n>` lines call c wrote.
Declarations(c, n) ==
  Count(LinesOf(c), LAMBDA e : e.text.cmd = "declare-fun" /\ e.text.id = n)

\* How many lines (declaration or assertion) of node n call c wrote.
LinesOfNode(c, n) ==
  Count(LinesOf(c), LAMBDA e : e.text.cmd \in {"declare-fun", "assert"} /\ e.text.id = n)

\* C4: a successful solve call has written exactly one `declare-fun x<id>`
\* line for every node reachable from its root, shared or not, and none for
\* any other node.
C4_OneDeclarationPerNode ==
  \A t \in Threads :
    (pc[t] = "returned" /\ Result(t) = SatUnknown) =>
      \A n \in NodeIds :
        Declarations(Cur(t), n) = IF n \in Reachable(Root(t)) THEN 1 ELSE 0

\* A successful call on a formula whose node i feeds two binary parents,
\* with a node the root does not reach.
C4_SharedInputWitness ==
  /\ pc[1] = "returned"
  /\ Result(1) = SatUnknown
  /\ \E i, p, q \in Reachable(Root(1)) :
       /\ p # q
       /\ Node(i).kind = "Input"
       /\ Node(p).kind = "Binary" /\ i \in Children(p)
       /\ Node(q).kind = "Binary" /\ i \in Children(q)

\* C5: a returned solve call never carries an assignment or Unsat; it
\* carries SatUnknown when none of its writes was refused, whatever the
\* formula, and then `(check-sat)`, `(get-model)`, `(pop 1)` are the last
\* lines it wrote.
C5_AlwaysSatUnknown ==
  \A t \in Threads :
    pc[t] = "returned" =>
      LET c == calls[t][Len(calls[t])]
          mine == Text(LinesOf(Cur(t)))
      IN  /\ c.ret.tag \in {"SatUnknown", "IoError"}
          /\ c.refused = 0 => c.ret = SatUnknown
          /\ c.ret = SatUnknown =>
               /\ c.refused = 0
               /\ Len(mine) >= 3
               /\ SubSeq(mine, Len(mine) - 2, Len(mine))
                    = <<CheckSatLine, GetModelLine, PopLine>>

C5_BinaryRootWitness ==
  /\ pc[1] = "returned"
  /\ Result(1) = SatUnknown
  /\ Node(Root(1)).kind = "Binary"
  /\ Len(graph) = MaxNodes

\* C8: to_smt maps each of the nine operators to the token of the interface
\* description, no two operators to one token, and every assertion of an
\* operator node in the sink carries the token of that node's operator.
C8_OperatorTokens ==
  /\ \A op \in BVOperator : to_smt(op) = SmtToken[op]
  /\ \A o1, o2 \in BVOperator : to_smt(o1) = to_smt(o2) => o1 = o2
  /\ \A i \in 1..Len(sink) :
       LET e == sink[i].text
       IN  (e.cmd = "assert" /\ Node(e.id).kind \in {"Unary", "Binary"})
             => e.tok = SmtToken[Node(e.id).op]

C8_SltuWitness ==
  \E i \in 1..Len(sink) :
    /\ sink[i].text.cmd = "assert"
    /\ sink[i].text.tok = "bvult"
    /\ Node(sink[i].text.id).op = "Sltu"

\* The traversal of thread t's call has begun: visited[t] is this call's map.
Traversing(t) ==
  \/ pc[t] \in {"visit_lock", "visit_write", "final_lock", "final_write"}
  \/ pc[t] = "returned" /\ Result(t).site # "push"

Failed(r) == r.tag = "IoError"

\* The error a callback meets first among its children's results.
FirstError(n, vis) ==
  LET nd == Node(n)
  IN  IF Failed(vis[nd.lhs]) THEN vis[nd.lhs] ELSE vis[nd.rhs]

\* What holds of error propagation in the visitor: a callback that receives
\* an error writes nothing for its node and returns the first error among
\* its children; no ancestor of a failed node is written; solve_impl returns
\* the error of the root.
ErrorsPropagate(t) ==
  LET vis == visited[t]
  IN  /\ \A n \in NodeIds :
           (vis[n] # Unvisited /\ \E c \in Children(n) : Failed(vis[c])) =>
             /\ LinesOfNode(Cur(t), n) = 0
             /\ vis[n] = FirstError(n, vis)
      /\ \A f, m \in NodeIds :
           (Failed(vis[f]) /\ m # f /\ f \in Reachable(m)) => LinesOfNode(Cur(t), m) = 0
      /\ (pc[t] = "returned" /\ \E f \in NodeIds : Failed(vis[f])) =>
           /\ Failed(Result(t))
           /\ Result(t) = vis[Root(t)]

\* The result of a binary callback whose children both failed names both
\* errors.
BothErrorsReflected(t) ==
  LET vis == visited[t]
  IN  \A n \in NodeIds :
        (/\ vis[n] # Unvisited
         /\ Node(n).kind = "Binary"
         /\ Failed(vis[Node(n).lhs])
         /\ Failed(vis[Node(n).rhs])) =>
          /\ vis[n].at = vis[Node(n).lhs].at
          /\ vis[n].at = vis[Node(n).rhs].at

\* C9 as stated: errors propagate as above, and the result of a binary
\* callback whose children both failed reflects both errors.
C9_NoChildErrorDropped ==
  \A t \in Threads : Traversing(t) => (ErrorsPropagate(t) /\ BothErrorsReflected(t))

\* C9 as amended: errors propagate as above; of two failed children the
\* binary callback returns the error of lhs.
C9_FirstChildErrorReturned ==
  \A t \in Threads : Traversing(t) => ErrorsPropagate(t)

\* A returned call whose binary root received two different errors.
C9_TwoErrorsWitness ==
  /\ pc[1] = "returned"
  /\ Traversing(1)
  /\ LET nd == Node(Root(1))
     IN  /\ nd.kind = "Binary"
         /\ Failed(visited[1][nd.lhs])
         /\ Failed(visited[1][nd.rhs])
         /\ visited[1][nd.lhs].at # visited[1][nd.rhs].at

\* C10: no thread waits for the mutex it holds or keeps it past its return,
\* some thread can step whenever a call is running, and under fair
\* scheduling every running call returns, the mutex not with its thread.
C10_NoDeadlockCallsReturn ==
  /\ [](\A t \in Threads :
          /\ pc[t] \in {"push_lock", "visit_lock", "final_lock"} => lock # t
          /\ ~InCall(t) => lock # t)
  /\ []((\E t \in Threads : InCall(t)) => ENABLED NextConc)
  /\ \A t \in Threads : InCall(t) ~> (pc[t] = "returned" /\ lock # t)

\* A thread waits at a visitor callback while another holds the mutex for
\* its check-sat block.
C10_ContentionWitness ==
  \E t, u \in Threads :
    /\ t # u
    /\ pc[t] = "visit_lock"
    /\ pc[u] = "final_write"
    /\ lock = u

\* A memory size of a case parses as an unsigned integer of the range.
ParsesInRange(c) == c.form # "minus" /\ 1 <= c.n /\ c.n <= 1024

\* C6: a parsed command line of `execute` or of `rarity` whose memory size
\* does not parse as an unsigned integer n with 1 <= n <= 1024 (0, a negative
\* number, a number above 1024, no number) is an error; one whose memory size
\* does, the boundaries 1 and 1024 included, gives matches.
C6_MemoryAcceptedIffInRange ==
  cli.result # "none" =>
    /\ cli.line.sub \in {"execute", "rarity"}
    /\ \A c \in MemoryCases :
         cli.line.memory = {c.text} =>
           /\ ~ParsesInRange(c) => cli.result = "error"
           /\ (ParsesInRange(c) /\ cli.line.ratio = {}) => cli.result = "matches"
    /\ \A v \in NotIntegers : cli.line.memory = {v} => cli.result = "error"

\* `rarity -m 1024` is accepted.
C6_UpperBoundaryWitness ==
  /\ cli.line.sub = "rarity"
  /\ cli.line.memory = {Numeral(1024)}
  /\ cli.result = "matches"

\* The fraction of a ratio case is zero.
FractionZero(c) == ~c.point \/ (c.last = 0 /\ (c.fill = 0 \/ c.run = 0))

\* The decimal a ratio case denotes lies in [0, 1].
InUnitInterval(c) ==
  \/ c.int = 0 /\ FractionZero(c)
  \/ ~c.neg /\ (c.int = 0 \/ (c.int = 1 /\ FractionZero(c)))

\* The decimal a ratio case denotes is above 1 by at most 2^-53, which is
\* 1.11...e-16: its fraction is `last` after `run` zeros, run + 1 places
\* after the point.
AboveOneByHalfUlp(c) ==
  /\ ~c.neg /\ c.int = 1 /\ c.point
  /\ c.fill = 0 \/ c.run = 0
  /\ c.run >= 16 \/ (c.run = 15 /\ c.last <= 1)

RatioRejectsNoNumber ==
  \A v \in NotNumbers \cup NotFinite : cli.line.ratio = {v} => cli.result = "error"

\* C7 as stated: a parsed `rarity` command line whose ratio is a decimal
\* outside [0.0, 1.0], or no number, is an error; one whose ratio is a
\* decimal inside [0.0, 1.0], the endpoints included, gives matches.
C7_RatioAcceptedIffInUnitInterval ==
  cli.result # "none" =>
    /\ \A c \in RatioCases :
         cli.line.ratio = {c.text} =>
           /\ ~InUnitInterval(c) => cli.result = "error"
           /\ (InUnitInterval(c) /\ cli.line.memory = {}) => cli.result = "matches"
    /\ RatioRejectsNoNumber

\* C7 as amended: the ratio is accepted when the f64 nearest to it lies in
\* [0.0, 1.0], which includes the decimals above 1 by at most 2^-53, and is
\* an error otherwise.
C7_RatioAcceptedIffNearestF64InUnitInterval ==
  cli.result # "none" =>
    /\ \A c \in RatioCases :
         cli.line.ratio = {c.text} =>
           /\ ~(InUnitInterval(c) \/ AboveOneByHalfUlp(c)) => cli.result = "error"
           /\ ((InUnitInterval(c) \/ AboveOneByHalfUlp(c)) /\ cli.line.memory = {})
                => cli.result = "matches"
    /\ RatioRejectsNoNumber

\* `rarity --copy-init-ratio 1.0000000000000001` is accepted.
C7_AboveOneAcceptedWitness ==
  /\ cli.line.sub = "rarity"
  /\ cli.line.ratio = {RatioText(FALSE, 1, TRUE, 0, 15, 1)}
  /\ cli.result = "matches"

====
